---- MODULE Spec2Model ----
(***************************************************************************)
(* Request-scoped authorization and multi-tenant data access of the        *)
(* SupplyChainLens backend: the credential issuer (routes/auth.ts), the    *)
(* session validator (middleware/auth.ts), the tenant-scoped routes, the    *)
(* alert routes, the WebSocket service and the request metrics.            *)
(* The relational store is the state; every HTTP request is one action.    *)
(* Time is Date's clock in units of 100 ms; a JWT's iat/exp are in seconds. *)
(***************************************************************************)
EXTENDS Integers, Sequences, FiniteSets, TLC

\* ---------------------------------------------------------------- bounds
MaxLate == 2
MaxSessions == 2
MaxIssued == 2
MaxSuppliers == 2
MaxPending == 2
MaxSockets == 2
MaxBuffer == 2
MaxRequests == 4

\* ------------------------------------------------------- time and config
UnitsPerSecond == 10
HalfSecond == 5
SecondsPerDay == 24 * 60 * 60
SessionDays == 7
SessionTtl == SessionDays * SecondsPerDay * UnitsPerSecond
JwtDefaultDays == 7
JwtLongDays == 30
\* the values of process.env.JWT_EXPIRES_IN that are modelled, in seconds
JwtConfigs == {JwtDefaultDays * SecondsPerDay, JwtLongDays * SecondsPerDay}
\* the clock advances by half a second or by one session lifetime: at most
\* MaxLate half-seconds after time 0 and after one session lifetime
ClockSteps == {HalfSecond, SessionTtl}
ClockMay(t, d) ==
  IF d = SessionTtl THEN t < SessionTtl
  ELSE (t % SessionTtl) + d <= MaxLate * HalfSecond

\* ------------------------------------------------------------ identities
UserIds == {"admin", "demo", "u3"}
OrgIds == {"o1", "o2"}
\* the users whose requests are modelled; the seeded demo user sends none
Clients == {"admin", "u3"}
Undefined == "undefined"

VARIABLES now, jwtExpiresIn, users, sessions, organizations, orgUsers,
          suppliers, riskAssessments, satelliteData, detections,
          issued, loggedOut, outdated, resp,
          alerts, sockets, emitted, duration, arrivals, pending, presented

vars == <<now, jwtExpiresIn, users, sessions, organizations, orgUsers,
          suppliers, riskAssessments, satelliteData, detections,
          issued, loggedOut, outdated, resp,
          alerts, sockets, emitted, duration, arrivals, pending, presented>>

storeVars == <<users, sessions, organizations, orgUsers, suppliers,
               riskAssessments, satelliteData, detections>>
tenantVars == <<organizations, orgUsers, suppliers, riskAssessments,
                satelliteData, detections>>
\* alerts: the Alert rows; sockets: the connected sockets and their rooms;
\* emitted: the last event sent to a room and the sockets it reached;
\* duration: metrics.requests.duration; arrivals: every duration measured, in
\* arrival order; pending: the add-user requests between their membership
\* check and their create
sideVars == <<alerts, sockets, emitted, duration, arrivals, pending>>
\* presented: the refresh token of the request in flight
serviceVars == <<sideVars, presented>>
\* issued: the tokens handed out; loggedOut: the tokens whose Session row a
\* logout deleted; outdated: the tokens issued before a role of their user
\* was changed in the store
ghostVars == <<issued, loggedOut, outdated>>

\* ---------------------------------------------------------------- tokens
\* jwt.sign({userId, email}, secret, {expiresIn}): iat is the clock in whole
\* seconds, exp = iat + expiresIn; the signature is a function of the claims,
\* so two tokens signed for one user in one second are the same string.
SignToken(uid, t, expiresIn) ==
  [userId |-> uid, iat |-> t \div UnitsPerSecond,
   exp |-> (t \div UnitsPerSecond) + expiresIn, sig |-> "ok"]

\* a token with one character removed: the signature no longer verifies
Truncate(tok) == [tok EXCEPT !.sig = "bad"]
EmptyToken == [userId |-> Undefined, iat |-> 0, exp |-> 0, sig |-> "empty"]
NoToken == [userId |-> Undefined, iat |-> 0, exp |-> 0, sig |-> "undefined"]

\* jwt.verify(token, secret): JsonWebTokenError for a bad signature,
\* TokenExpiredError (a JsonWebTokenError) once the clock in whole seconds
\* has reached exp
JwtVerify(tok, t) ==
  IF tok.sig # "ok" THEN "JsonWebTokenError"
  ELSE IF (t \div UnitsPerSecond) >= tok.exp THEN "TokenExpiredError"
  ELSE "ok"

\* the Authorization header, split on ' ': absent, or a sequence of parts
NoHeader == <<>>
Bearer(tok) == <<"Bearer", tok>>
\* authHeader && authHeader.split(' ')[1]
ExtractToken(header) ==
  IF header = NoHeader \/ Len(header) < 2 THEN NoToken ELSE header[2]
Falsy(tok) == tok.sig \in {"undefined", "empty"}

\* ----------------------------------------------------------------- store
NoUser == [exists |-> FALSE, isActive |-> FALSE, role |-> "USER"]
UserRow(u) == users[u]
\* prisma.user.findUnique(...) followed by  if (!user || !user.isActive)
UserRejectedIgnoringActive(uid) == ~UserRow(uid).exists
UserRejected(uid) == ~UserRow(uid).exists \/ ~UserRow(uid).isActive
\* prisma.userSession.findFirst({where: {userId, token, expiresAt: {gt: now}}})
LiveSessionsIgnoringToken(uid, tok, t) ==
  {s \in sessions : s.userId = uid /\ s.expiresAt > t}
LiveSessionsNonStrict(uid, tok, t) ==
  {s \in sessions : s.userId = uid /\ s.token = tok /\ s.expiresAt >= t}
LiveSessions(uid, tok, t) ==
  {s \in sessions : s.userId = uid /\ s.token = tok /\ s.expiresAt > t}
\* prisma.organizationUser.findUnique({where: {userId_organizationId}})
OrgUserRows(uid, oid) ==
  {m \in orgUsers : m.userId = uid /\ m.organizationId = oid}
MembershipsOf(uid) == {m \in orgUsers : m.userId = uid}
OrgsOf(uid) == {m.organizationId : m \in MembershipsOf(uid)}
\* the rows a findFirst / organizations[0] without orderBy may return first
FirstOrgChoicesOfAnyUser(uid) == OrgIds \cup {Undefined}
FirstOrgChoices(uid) ==
  IF MembershipsOf(uid) = {} THEN {Undefined} ELSE OrgsOf(uid)

NoCtx == [id |-> Undefined, role |-> Undefined, organizationId |-> Undefined]
InternalErrorStatus == 500

\* ------------------------------------------------- session validator
\* authenticateToken: the outcome for a header against the current store.
\* dbFail names the store lookup that throws ("none", "user", "session");
\* firstOrg is the membership the store returns first.  steps lists the
\* checks in the order they ran.
Outcome(status, message, ctx, steps) ==
  [status |-> status, message |-> message, ctx |-> ctx, steps |-> steps]

authenticateTokenSessionFirst(header, dbFail, firstOrg) ==
  LET token == ExtractToken(header) IN
  IF Falsy(token) THEN
    Outcome(401, "Access token required", NoCtx, <<"extract">>)
  ELSE IF JwtVerify(token, now) # "ok" THEN
    Outcome(401, "Invalid token", NoCtx, <<"extract", "verify">>)
  ELSE IF dbFail = "session" THEN
    Outcome(InternalErrorStatus, "Internal server error", NoCtx,
            <<"extract", "verify", "session">>)
  ELSE IF LiveSessions(token.userId, token, now) = {} THEN
    Outcome(401, "Session expired", NoCtx, <<"extract", "verify", "session">>)
  ELSE IF dbFail = "user" THEN
    Outcome(InternalErrorStatus, "Internal server error", NoCtx,
            <<"extract", "verify", "session", "user">>)
  ELSE IF UserRejected(token.userId) THEN
    Outcome(401, "User not found or inactive", NoCtx,
            <<"extract", "verify", "session", "user">>)
  ELSE
    Outcome(200, "next",
            [id |-> token.userId, role |-> UserRow(token.userId).role,
             organizationId |-> firstOrg],
            <<"extract", "verify", "session", "user", "selectOrg">>)

authenticateToken(header, dbFail, firstOrg) ==
  LET token == ExtractToken(header) IN
  IF Falsy(token) THEN
    Outcome(401, "Access token required", NoCtx, <<"extract">>)
  ELSE IF JwtVerify(token, now) # "ok" THEN
    Outcome(401, "Invalid token", NoCtx, <<"extract", "verify">>)
  ELSE IF dbFail = "user" THEN
    Outcome(InternalErrorStatus, "Internal server error", NoCtx,
            <<"extract", "verify", "user">>)
  ELSE IF UserRejected(token.userId) THEN
    Outcome(401, "User not found or inactive", NoCtx,
            <<"extract", "verify", "user">>)
  ELSE IF dbFail = "session" THEN
    Outcome(InternalErrorStatus, "Internal server error", NoCtx,
            <<"extract", "verify", "user", "session">>)
  ELSE IF LiveSessions(token.userId, token, now) = {} THEN
    Outcome(401, "Session expired", NoCtx,
            <<"extract", "verify", "user", "session">>)
  ELSE
    Outcome(200, "next",
            [id |-> token.userId, role |-> UserRow(token.userId).role,
             organizationId |-> firstOrg],
            <<"extract", "verify", "user", "session", "selectOrg">>)

DbFailures == {"none", "user", "session"}

\* a token with the seeded administrator's claims and a long lifetime that
\* was cut short by one character
ForgedToken == Truncate(SignToken("admin", 0, JwtLongDays * SecondsPerDay))

\* the headers a client can send: none, malformed, a damaged token, or a
\* token it was issued
Headers ==
  {NoHeader, <<"Bearer">>, Bearer(EmptyToken), Bearer(ForgedToken)}
    \cup {Bearer(t) : t \in issued}

\* ------------------------------------------------------------- responses
Response(route, token, status, message, ctx, steps, data) ==
  [route |-> route, token |-> token, org |-> Undefined, status |-> status,
   message |-> message, ctx |-> ctx, steps |-> steps, data |-> data]
\* the reply of a route handler: status, message and the rows in the body
Reply(status, message, data) ==
  [status |-> status, message |-> message, data |-> data]
\* the response to a request that names an organization (path, body or query)
Scoped(r, org) == [r EXCEPT !.org = org]
NoResponse == Response("none", NoToken, 0, "", NoCtx, <<>>, {})
\* what the error handler would send if a missing token were a bad request
RejectionAsBadRequest(route, token, out) ==
  Response(route, token,
           IF out.message = "Access token required" THEN 400 ELSE out.status,
           out.message, NoCtx, out.steps, {})

\* what the error handler sends for an authenticateToken failure
Rejection(route, token, out) ==
  Response(route, token, out.status, out.message, NoCtx, out.steps, {})

\* ------------------------------------------------------------------ Init
SeedUsers ==
  [u \in UserIds |->
     IF u = "admin" THEN [exists |-> TRUE, isActive |-> TRUE, role |-> "ADMIN"]
     ELSE IF u = "demo" THEN [exists |-> TRUE, isActive |-> TRUE, role |-> "USER"]
     ELSE NoUser]
NoOrg == [exists |-> FALSE, name |-> "none"]
SeedOrganizations ==
  [o \in OrgIds |-> IF o = "o1" THEN [exists |-> TRUE, name |-> "n0"] ELSE NoOrg]
SeedOrgUsers ==
  {[userId |-> "admin", organizationId |-> "o1", role |-> "OWNER"],
   [userId |-> "demo", organizationId |-> "o1", role |-> "MEMBER"]}

\* the Alert rows of the seed script, both addressed to the demo user
SeedAlerts ==
  {[id |-> "a1", userId |-> "demo", isRead |-> FALSE],
   [id |-> "a2", userId |-> "demo", isRead |-> FALSE]}
\* no event has been sent yet
NoEvent == [event |-> "none", room |-> <<>>, receivers |-> {}]

Init ==
  /\ now = 0
  /\ jwtExpiresIn \in JwtConfigs
  /\ users = SeedUsers
  /\ sessions = {}
  /\ organizations = SeedOrganizations
  /\ orgUsers = SeedOrgUsers
  /\ suppliers = {[id |-> "s1", organizationId |-> "o1"]}
  /\ riskAssessments = {[id |-> "r1", supplierId |-> "s1"]}
  /\ satelliteData = {[id |-> "d1", supplierId |-> "s1"]}
  /\ detections = {[id |-> "det1", type |-> "FOREST_LOSS", organizationId |-> "o1"]}
  /\ issued = {}
  /\ loggedOut = {}
  /\ outdated = {}
  /\ resp = NoResponse
  /\ alerts = SeedAlerts
  /\ sockets = {}
  /\ emitted = NoEvent
  /\ duration = <<>>
  /\ arrivals = <<>>
  /\ pending = {}
  /\ presented = NoToken

\* ----------------------------------------------------------- environment
\* requests are served one at a time: a request is taken only when the
\* previous response has been delivered
Idle == resp = NoResponse

\* res.json(...) / the error handler's reply reaches the client
Deliver ==
  /\ ~Idle
  /\ resp' = NoResponse
  /\ presented' = NoToken
  /\ UNCHANGED <<now, jwtExpiresIn, sideVars, storeVars, ghostVars>>

\* the wall clock read by new Date() and by jwt
Tick ==
  /\ Idle
  /\ \E d \in ClockSteps :
       /\ ClockMay(now, d)
       /\ now' = now + d
  /\ UNCHANGED <<jwtExpiresIn, serviceVars, storeVars, ghostVars, resp>>

\* an operator sets User.isActive to false in the store (no route does)
DeactivateUser ==
  /\ Idle
  /\ \E u \in Clients :
       /\ users[u].exists /\ users[u].isActive
       /\ users' = [users EXCEPT ![u].isActive = FALSE]
  /\ UNCHANGED <<now, jwtExpiresIn, serviceVars, sessions, tenantVars, ghostVars, resp>>

\* the roles an OrganizationUser row can carry
MembershipRoles == {"OWNER", "ADMIN", "MEMBER", "VIEWER"}
GlobalRoles == {"USER", "ADMIN"}
TokensOf(uid) == {t \in issued : t.userId = uid}

\* an operator changes OrganizationUser.role in the store (no route does)
SetMembershipRole ==
  /\ Idle
  /\ \E m \in orgUsers, role \in MembershipRoles :
       /\ m.userId \in Clients
       /\ role # m.role
       /\ orgUsers' = (orgUsers \ {m}) \cup {[m EXCEPT !.role = role]}
       /\ outdated' = outdated \cup TokensOf(m.userId)
  /\ UNCHANGED <<now, jwtExpiresIn, serviceVars, users, sessions, organizations, suppliers,
                 riskAssessments, satelliteData, detections, issued, loggedOut,
                 resp>>

\* an operator changes User.role in the store (no route does)
SetUserRole ==
  /\ Idle
  /\ \E u \in Clients, role \in GlobalRoles :
       /\ users[u].exists
       /\ role # users[u].role
       /\ users' = [users EXCEPT ![u].role = role]
       /\ outdated' = outdated \cup TokensOf(u)
  /\ UNCHANGED <<now, jwtExpiresIn, serviceVars, sessions, tenantVars, issued, loggedOut, resp>>

\* ------------------------------------------------------ credential issuer
\* the Session row written beside every issued token:
\* expiresAt = new Date(); expiresAt.setDate(expiresAt.getDate() + 7)
NewSession(uid, tok, t) ==
  [userId |-> uid, token |-> tok, expiresAt |-> t + SessionTtl]

\* the bounds on issued tokens and on Session rows
CanIssue(tok) ==
  /\ Cardinality(sessions) < MaxSessions
  /\ Cardinality(issued \cup {tok}) <= MaxIssued

\* prisma.user.findUnique({where: {email}}) followed by  if (existingUser)
EmailTakenIfActive(email) == users[email].exists /\ users[email].isActive
EmailTaken(email) == users[email].exists

\* POST /auth/register
Register ==
  /\ Idle
  /\ \E email \in Clients, valid \in BOOLEAN :
       IF ~valid THEN
         /\ resp' = Response("register", NoToken, 400, "Validation failed",
                             NoCtx, <<>>, {})
         /\ UNCHANGED <<users, sessions, ghostVars>>
       ELSE IF EmailTaken(email) THEN
         /\ resp' = Response("register", NoToken, 409,
                             "User already exists with this email", NoCtx, <<>>, {})
         /\ UNCHANGED <<users, sessions, ghostVars>>
       ELSE
         LET token == SignToken(email, now, jwtExpiresIn) IN
         /\ CanIssue(token)
         /\ users' = [users EXCEPT ![email] =
                        [exists |-> TRUE, isActive |-> TRUE, role |-> "USER"]]
         /\ sessions' = sessions \cup {NewSession(email, token, now)}
         /\ issued' = issued \cup {token}
         /\ UNCHANGED <<loggedOut, outdated>>
         /\ resp' = Response("register", token, 201, "User registered successfully",
                             NoCtx, <<>>, {email})
  /\ UNCHANGED <<now, jwtExpiresIn, serviceVars, tenantVars>>

\* why POST /auth/login refuses: no User row for the email, an inactive
\* user, a password bcrypt.compare does not accept; "none" otherwise
LoginCauses == {"unknown", "inactive", "password"}
LoginCause(email, passwordOk) ==
  IF ~users[email].exists THEN "unknown"
  ELSE IF ~users[email].isActive THEN "inactive"
  ELSE IF ~passwordOk THEN "password"
  ELSE "none"
\* the checks that ran before the refusal
LoginSteps(cause) ==
  IF cause = "password" THEN <<"validate", "user", "password">>
  ELSE <<"validate", "user">>
\* throw new CustomError('Invalid credentials', 401), thrown at both checks
LoginRejectionTelling(cause) ==
  IF cause = "password" THEN Reply(401, "Invalid password", {})
  ELSE Reply(401, "Invalid credentials", {})
LoginRejection(cause) == Reply(401, "Invalid credentials", {})

\* POST /auth/login; valid is the result of loginValidation, passwordOk the
\* result of bcrypt.compare
Login ==
  /\ Idle
  /\ \E email \in Clients, valid \in BOOLEAN, passwordOk \in BOOLEAN :
       LET cause == LoginCause(email, passwordOk) IN
       IF ~valid THEN
         /\ resp' = Response("login", NoToken, 400, "Validation failed",
                             NoCtx, <<"validate">>, {})
         /\ UNCHANGED <<sessions, ghostVars>>
       ELSE IF cause # "none" THEN
         /\ resp' = Response("login", NoToken, LoginRejection(cause).status,
                             LoginRejection(cause).message, NoCtx,
                             LoginSteps(cause), LoginRejection(cause).data)
         /\ UNCHANGED <<sessions, ghostVars>>
       ELSE
         LET token == SignToken(email, now, jwtExpiresIn) IN
         /\ CanIssue(token)
         /\ sessions' = sessions \cup {NewSession(email, token, now)}
         /\ issued' = issued \cup {token}
         /\ UNCHANGED <<loggedOut, outdated>>
         /\ resp' = Response("login", token, 200, "Login successful",
                             NoCtx, <<>>, {email})
  /\ UNCHANGED <<now, jwtExpiresIn, serviceVars, users, tenantVars>>

\* prisma.userSession.deleteMany({where: {token}})
DeleteSessions(tok) == {s \in sessions : s.token # tok}

\* POST /auth/logout
Logout ==
  /\ Idle
  /\ \E header \in Headers :
       LET token == ExtractToken(header) IN
       /\ sessions' = IF Falsy(token) THEN sessions ELSE DeleteSessions(token)
       /\ loggedOut' = IF sessions' # sessions THEN loggedOut \cup {token}
                       ELSE loggedOut
       /\ resp' = Response("logout", token, 200, "Logout successful",
                           NoCtx, <<>>, {})
  /\ UNCHANGED <<now, jwtExpiresIn, serviceVars, users, tenantVars, issued, outdated>>

\* what the error handler replies when jwt.verify throws inside a route
JwtErrorStatus == 401

\* GET /auth/me
GetMe ==
  /\ Idle
  /\ \E header \in Headers :
       LET token == ExtractToken(header) IN
       resp' =
         IF Falsy(token) THEN
           Response("me", token, 401, "Authentication required", NoCtx, <<>>, {})
         ELSE IF JwtVerify(token, now) # "ok" THEN
           Response("me", token, JwtErrorStatus, "Invalid token", NoCtx, <<>>, {})
         ELSE IF UserRejected(token.userId) THEN
           Response("me", token, 404, "User not found", NoCtx, <<>>, {})
         ELSE
           Response("me", token, 200, "ok", NoCtx, <<>>, {token.userId})
  /\ UNCHANGED <<now, jwtExpiresIn, serviceVars, storeVars, ghostVars>>

\* prisma.userSession.updateMany({where: {token}, data: {token, expiresAt}})
UpdateSessions(oldTok, newTok, t) ==
  {IF s.token = oldTok
     THEN [s EXCEPT !.token = newTok, !.expiresAt = t + SessionTtl]
     ELSE s : s \in sessions}

\* the refresh tokens a client can put in the body
RefreshBodies == {NoToken, ForgedToken} \cup issued

\* POST /auth/refresh
Refresh ==
  /\ Idle
  /\ \E refreshToken \in RefreshBodies :
       /\ presented' = refreshToken
       /\ IF Falsy(refreshToken) THEN
            /\ resp' = Response("refresh", refreshToken, 400, "Refresh token required",
                                NoCtx, <<>>, {})
            /\ UNCHANGED <<sessions, ghostVars>>
          ELSE IF JwtVerify(refreshToken, now) # "ok" THEN
            /\ resp' = Response("refresh", refreshToken, JwtErrorStatus, "Invalid token",
                                NoCtx, <<>>, {})
            /\ UNCHANGED <<sessions, ghostVars>>
          ELSE IF UserRejected(refreshToken.userId) THEN
            /\ resp' = Response("refresh", refreshToken, 401, "Invalid refresh token",
                                NoCtx, <<>>, {})
            /\ UNCHANGED <<sessions, ghostVars>>
          ELSE
            LET newToken == SignToken(refreshToken.userId, now, jwtExpiresIn) IN
            /\ Cardinality(issued \cup {newToken}) <= MaxIssued
            /\ sessions' = UpdateSessions(refreshToken, newToken, now)
            /\ issued' = issued \cup {newToken}
            /\ UNCHANGED <<loggedOut, outdated>>
            /\ resp' = Response("refresh", newToken, 200, "ok", NoCtx, <<>>, {})
  /\ UNCHANGED <<now, jwtExpiresIn, sideVars, users, tenantVars>>

\* ------------------------------------------------------ protected routes
\* GET /users/profile, a route behind authenticateToken
GetProfile ==
  /\ Idle
  /\ \E header \in Headers, dbFail \in DbFailures :
       LET token == ExtractToken(header) IN
       \E firstOrg \in FirstOrgChoices(token.userId) :
         LET out == authenticateToken(header, dbFail, firstOrg) IN
         resp' = IF out.status # 200 THEN Rejection("profile", token, out)
                 ELSE Response("profile", token, 200, "ok", out.ctx, out.steps,
                               {out.ctx.id})
  /\ UNCHANGED <<now, jwtExpiresIn, serviceVars, storeVars, ghostVars>>

\* optionalAuth: the outcome for a header against the current store.  Every
\* throw (jwt.verify, a failing user lookup) is caught and followed by next();
\* the Session table is not read and no organization is selected.
optionalAuth(header, dbFail) ==
  LET token == ExtractToken(header) IN
  IF Falsy(token) THEN
    Outcome(200, "next", NoCtx, <<"extract">>)
  ELSE IF JwtVerify(token, now) # "ok" THEN
    Outcome(200, "next", NoCtx, <<"extract", "verify", "catch">>)
  ELSE IF dbFail = "user" THEN
    Outcome(200, "next", NoCtx, <<"extract", "verify", "user", "catch">>)
  ELSE IF UserRejected(token.userId) THEN
    Outcome(200, "next", NoCtx, <<"extract", "verify", "user">>)
  ELSE
    Outcome(200, "next",
            [id |-> token.userId, role |-> UserRow(token.userId).role,
             organizationId |-> Undefined],
            <<"extract", "verify", "user">>)

\* a request to a route mounted behind optionalAuth; the handler replies with
\* the caller it was given, if any
OptionalAuthRequest ==
  /\ Idle
  /\ \E header \in Headers, dbFail \in {"none", "user"} :
       LET token == ExtractToken(header)
           out == optionalAuth(header, dbFail) IN
       resp' = Response("optional", token, out.status, out.message, out.ctx,
                        out.steps,
                        IF out.ctx = NoCtx THEN {} ELSE {out.ctx.id})
  /\ UNCHANGED <<now, jwtExpiresIn, serviceVars, storeVars, ghostVars>>

\* requireRole(roles), given the context the earlier middleware attached
requireRoleAnyCaller(ctx, roles) ==
  IF ctx = NoCtx THEN Outcome(401, "Authentication required", ctx, <<"role">>)
  ELSE Outcome(200, "next", ctx, <<"role">>)
requireRole(ctx, roles) ==
  IF ctx = NoCtx THEN Outcome(401, "Authentication required", ctx, <<"role">>)
  ELSE IF ctx.role \notin roles THEN
    Outcome(403, "Insufficient permissions", ctx, <<"role">>)
  ELSE Outcome(200, "next", ctx, <<"role">>)

\* req.params.organizationId || req.body.organizationId
NamedOrganization(paramOrg, bodyOrg) ==
  IF paramOrg # Undefined THEN paramOrg ELSE bodyOrg

\* requireOrganizationAccess, given the context the earlier middleware
\* attached; dbFail = "membership" makes the findUnique throw
requireOrganizationAccessAnyMembership(ctx, paramOrg, bodyOrg, dbFail) ==
  LET organizationId == NamedOrganization(paramOrg, bodyOrg) IN
  IF ctx = NoCtx THEN
    Outcome(401, "Authentication required", ctx, <<"membership">>)
  ELSE IF organizationId = Undefined THEN
    Outcome(400, "Organization ID required", ctx, <<"membership">>)
  ELSE IF dbFail = "membership" THEN
    Outcome(InternalErrorStatus, "Internal server error", ctx, <<"membership">>)
  ELSE IF MembershipsOf(ctx.id) = {} THEN
    Outcome(403, "Access denied to organization", ctx, <<"membership">>)
  ELSE
    Outcome(200, "next", [ctx EXCEPT !.organizationId = organizationId],
            <<"membership">>)
requireOrganizationAccess(ctx, paramOrg, bodyOrg, dbFail) ==
  LET organizationId == NamedOrganization(paramOrg, bodyOrg) IN
  IF ctx = NoCtx THEN
    Outcome(401, "Authentication required", ctx, <<"membership">>)
  ELSE IF organizationId = Undefined THEN
    Outcome(400, "Organization ID required", ctx, <<"membership">>)
  ELSE IF dbFail = "membership" THEN
    Outcome(InternalErrorStatus, "Internal server error", ctx, <<"membership">>)
  ELSE IF OrgUserRows(ctx.id, organizationId) = {} THEN
    Outcome(403, "Access denied to organization", ctx, <<"membership">>)
  ELSE
    Outcome(200, "next", [ctx EXCEPT !.organizationId = organizationId],
            <<"membership">>)

\* --------------------------------------------------------- tenant routes
\* an organization id no Organization row has
NoSuchOrg == "o9"
OrgParams == OrgIds \cup {NoSuchOrg}
OrgNames == {"n0", "n1"}
SupplierIds == {"s1", "s2", "s3", "s4"}
OrgExists(oid) == oid \in OrgIds /\ organizations[oid].exists

\* the response of a route behind authenticateToken whose handler replied
Handled(route, token, org, out, reply) ==
  Scoped(Response(route, token, reply.status, reply.message, out.ctx,
                  out.steps, reply.data), org)
Refused(route, token, org, out) == Scoped(Rejection(route, token, out), org)

\* POST /organizations
CreateOrganization ==
  /\ Idle
  /\ \E header \in Headers, valid \in BOOLEAN, name \in OrgNames :
       LET token == ExtractToken(header) IN
       \E firstOrg \in FirstOrgChoices(token.userId) :
         LET out == authenticateToken(header, "none", firstOrg) IN
         IF out.status # 200 THEN
           /\ resp' = Refused("createOrg", token, Undefined, out)
           /\ UNCHANGED <<organizations, orgUsers>>
         ELSE IF ~valid THEN
           /\ resp' = Handled("createOrg", token, Undefined, out,
                              Reply(400, "Validation failed", {}))
           /\ UNCHANGED <<organizations, orgUsers>>
         ELSE
           /\ \E o \in OrgIds : ~organizations[o].exists
           /\ LET id == CHOOSE o \in OrgIds : ~organizations[o].exists IN
              /\ organizations' =
                   [organizations EXCEPT ![id] = [exists |-> TRUE, name |-> name]]
              /\ orgUsers' = orgUsers \cup
                   {[userId |-> out.ctx.id, organizationId |-> id, role |-> "OWNER"]}
              /\ resp' = Handled("createOrg", token, id, out,
                                 Reply(201, "Organization created successfully", {id}))
  /\ UNCHANGED <<now, jwtExpiresIn, serviceVars, users, sessions, suppliers, riskAssessments,
                 satelliteData, detections, ghostVars>>

\* GET /organizations/:organizationId: the handler's reply to user uid
GetOrganizationReplyLeaky(uid, oid) ==
  IF OrgUserRows(uid, oid) # {} THEN Reply(200, "ok", {oid})
  ELSE IF OrgExists(oid) THEN Reply(403, "Access denied to organization", {})
  ELSE Reply(404, "Organization not found or access denied", {})
GetOrganizationReply(uid, oid) ==
  IF OrgUserRows(uid, oid) = {}
  THEN Reply(404, "Organization not found or access denied", {})
  ELSE Reply(200, "ok", {oid})

GetOrganization ==
  /\ Idle
  /\ \E header \in Headers, oid \in OrgParams :
       LET token == ExtractToken(header) IN
       \E firstOrg \in FirstOrgChoices(token.userId) :
         LET out == authenticateToken(header, "none", firstOrg) IN
         resp' = IF out.status # 200 THEN Refused("getOrg", token, oid, out)
                 ELSE Handled("getOrg", token, oid, out,
                              GetOrganizationReply(out.ctx.id, oid))
  /\ UNCHANGED <<now, jwtExpiresIn, serviceVars, storeVars, ghostVars>>

\* GET /organizations/:organizationId/users: the handler's reply to user uid
GetOrganizationUsersReply(uid, oid) ==
  IF OrgUserRows(uid, oid) = {}
  THEN Reply(404, "Organization not found or access denied", {})
  ELSE Reply(200, "ok", {m.userId : m \in {r \in orgUsers : r.organizationId = oid}})

GetOrganizationUsers ==
  /\ Idle
  /\ \E header \in Headers, oid \in OrgParams :
       LET token == ExtractToken(header) IN
       \E firstOrg \in FirstOrgChoices(token.userId) :
         LET out == authenticateToken(header, "none", firstOrg) IN
         resp' = IF out.status # 200 THEN Refused("getOrgUsers", token, oid, out)
                 ELSE Handled("getOrgUsers", token, oid, out,
                              GetOrganizationUsersReply(out.ctx.id, oid))
  /\ UNCHANGED <<now, jwtExpiresIn, serviceVars, storeVars, ghostVars>>

\* if (!orgUser || !['OWNER', 'ADMIN'].includes(orgUser.role))
MayManageAnyMember(uid, oid) == OrgUserRows(uid, oid) # {}
MayManageAsSeeded(uid, oid) ==
  \E m \in SeedOrgUsers :
    m.userId = uid /\ m.organizationId = oid /\ m.role \in {"OWNER", "ADMIN"}
MayManage(uid, oid) ==
  \E m \in OrgUserRows(uid, oid) : m.role \in {"OWNER", "ADMIN"}

\* PUT /organizations/:organizationId; name is absent or a new name
UpdateOrganization ==
  /\ Idle
  /\ \E header \in Headers, oid \in OrgParams, valid \in BOOLEAN,
        name \in OrgNames \cup {Undefined} :
       LET token == ExtractToken(header) IN
       \E firstOrg \in FirstOrgChoices(token.userId) :
         LET out == authenticateToken(header, "none", firstOrg) IN
         IF out.status # 200 THEN
           /\ resp' = Refused("updateOrg", token, oid, out)
           /\ UNCHANGED organizations
         ELSE IF ~valid THEN
           /\ resp' = Handled("updateOrg", token, oid, out,
                              Reply(400, "Validation failed", {}))
           /\ UNCHANGED organizations
         ELSE IF ~MayManage(out.ctx.id, oid) THEN
           /\ resp' = Handled("updateOrg", token, oid, out,
                              Reply(403, "Insufficient permissions", {}))
           /\ UNCHANGED organizations
         ELSE
           /\ organizations' =
                IF name = Undefined THEN organizations
                ELSE [organizations EXCEPT ![oid].name = name]
           /\ resp' = Handled("updateOrg", token, oid, out,
                              Reply(200, "Organization updated successfully", {oid}))
  /\ UNCHANGED <<now, jwtExpiresIn, serviceVars, users, sessions, orgUsers, suppliers,
                 riskAssessments, satelliteData, detections, ghostVars>>

\* body('role').isIn(['MEMBER', 'VIEWER'])
AddableRolesWithOwner == {"MEMBER", "VIEWER", "OWNER"}
AddableRoles == {"MEMBER", "VIEWER"}

\* POST /organizations/:organizationId/users
AddOrganizationUser ==
  /\ Idle
  /\ \E header \in Headers, oid \in OrgParams, email \in UserIds,
        role \in {"MEMBER", "VIEWER", "OWNER"} :
       LET token == ExtractToken(header) IN
       \E firstOrg \in FirstOrgChoices(token.userId) :
         LET out == authenticateToken(header, "none", firstOrg) IN
         IF out.status # 200 THEN
           /\ resp' = Refused("addOrgUser", token, oid, out)
           /\ UNCHANGED orgUsers
         ELSE IF role \notin AddableRoles THEN
           /\ resp' = Handled("addOrgUser", token, oid, out,
                              Reply(400, "Validation failed", {}))
           /\ UNCHANGED orgUsers
         ELSE IF ~MayManage(out.ctx.id, oid) THEN
           /\ resp' = Handled("addOrgUser", token, oid, out,
                              Reply(403, "Insufficient permissions", {}))
           /\ UNCHANGED orgUsers
         ELSE IF ~users[email].exists THEN
           /\ resp' = Handled("addOrgUser", token, oid, out,
                              Reply(404, "User not found", {}))
           /\ UNCHANGED orgUsers
         ELSE IF OrgUserRows(email, oid) # {} THEN
           /\ resp' = Handled("addOrgUser", token, oid, out,
                              Reply(409, "User already in organization", {}))
           /\ UNCHANGED orgUsers
         ELSE
           /\ orgUsers' = orgUsers \cup
                {[userId |-> email, organizationId |-> oid, role |-> role]}
           /\ resp' = Handled("addOrgUser", token, oid, out,
                              Reply(201, "User added to organization successfully",
                                    {email}))
  /\ UNCHANGED <<now, jwtExpiresIn, serviceVars, users, sessions, organizations, suppliers,
                 riskAssessments, satelliteData, detections, ghostVars>>

\* POST /suppliers: the body's organizationId is validated as an id only
CreateSupplier ==
  /\ Idle
  /\ \E header \in Headers, oid \in OrgParams, valid \in BOOLEAN :
       LET token == ExtractToken(header) IN
       \E firstOrg \in FirstOrgChoices(token.userId) :
         LET out == authenticateToken(header, "none", firstOrg) IN
         IF out.status # 200 THEN
           /\ resp' = Refused("createSupplier", token, oid, out)
           /\ UNCHANGED suppliers
         ELSE IF ~valid THEN
           /\ resp' = Handled("createSupplier", token, oid, out,
                              Reply(400, "Validation failed", {}))
           /\ UNCHANGED suppliers
         ELSE IF ~OrgExists(oid) THEN
           \* the foreign key of Supplier.organizationId makes create throw
           /\ resp' = Handled("createSupplier", token, oid, out,
                              Reply(InternalErrorStatus, "Internal server error", {}))
           /\ UNCHANGED suppliers
         ELSE
           /\ Cardinality(suppliers) < MaxSuppliers
           /\ LET id == CHOOSE x \in SupplierIds : \A r \in suppliers : r.id # x IN
              /\ suppliers' = suppliers \cup {[id |-> id, organizationId |-> oid]}
              /\ resp' = Handled("createSupplier", token, oid, out,
                                 Reply(201, "Supplier created successfully", {id}))
  /\ UNCHANGED <<now, jwtExpiresIn, serviceVars, users, sessions, organizations, orgUsers,
                 riskAssessments, satelliteData, detections, ghostVars>>

\* GET /suppliers?organizationId=...: userOrg is the membership findFirst
\* returns; the query parameter, when present, replaces its organization
GetSuppliersReply(userOrg, queryOrg) ==
  IF userOrg = Undefined THEN Reply(200, "ok", {})
  ELSE LET target == IF queryOrg # Undefined THEN queryOrg ELSE userOrg IN
       Reply(200, "ok", {r.id : r \in {x \in suppliers : x.organizationId = target}})

GetSuppliers ==
  /\ Idle
  /\ \E header \in Headers, queryOrg \in OrgParams \cup {Undefined} :
       LET token == ExtractToken(header) IN
       \E firstOrg \in FirstOrgChoices(token.userId) :
         LET out == authenticateToken(header, "none", firstOrg) IN
         IF out.status # 200 THEN
           resp' = Refused("getSuppliers", token, queryOrg, out)
         ELSE
           \E userOrg \in FirstOrgChoices(out.ctx.id) :
             resp' = Handled("getSuppliers", token, queryOrg, out,
                             GetSuppliersReply(userOrg, queryOrg))
  /\ UNCHANGED <<now, jwtExpiresIn, serviceVars, storeVars, ghostVars>>

\* GET /risk/assessments?supplierId=...
GetRiskAssessmentsReply(supplierId) ==
  Reply(200, "ok",
        {r.id : r \in {x \in riskAssessments :
                         supplierId = Undefined \/ x.supplierId = supplierId}})
\* GET /satellite?supplierId=...
GetSatelliteDataReply(supplierId) ==
  Reply(200, "ok",
        {r.id : r \in {x \in satelliteData :
                         supplierId = Undefined \/ x.supplierId = supplierId}})
\* GET /monitoring/detections?type=...
GetDetectionsReply(type) ==
  Reply(200, "ok",
        {r.id : r \in {x \in detections : type = Undefined \/ x.type = type}})

GetRiskAssessments ==
  /\ Idle
  /\ \E header \in Headers, supplierId \in SupplierIds \cup {Undefined} :
       LET token == ExtractToken(header) IN
       \E firstOrg \in FirstOrgChoices(token.userId) :
         LET out == authenticateToken(header, "none", firstOrg) IN
         resp' = IF out.status # 200 THEN Refused("getRisk", token, Undefined, out)
                 ELSE Handled("getRisk", token, Undefined, out,
                              GetRiskAssessmentsReply(supplierId))
  /\ UNCHANGED <<now, jwtExpiresIn, serviceVars, storeVars, ghostVars>>

GetSatelliteData ==
  /\ Idle
  /\ \E header \in Headers, supplierId \in SupplierIds \cup {Undefined} :
       LET token == ExtractToken(header) IN
       \E firstOrg \in FirstOrgChoices(token.userId) :
         LET out == authenticateToken(header, "none", firstOrg) IN
         resp' = IF out.status # 200 THEN Refused("getSatellite", token, Undefined, out)
                 ELSE Handled("getSatellite", token, Undefined, out,
                              GetSatelliteDataReply(supplierId))
  /\ UNCHANGED <<now, jwtExpiresIn, serviceVars, storeVars, ghostVars>>

DetectionTypes == {"FOREST_LOSS", "MINING_ACTIVITY"}

GetDetections ==
  /\ Idle
  /\ \E header \in Headers, type \in DetectionTypes \cup {Undefined} :
       LET token == ExtractToken(header) IN
       \E firstOrg \in FirstOrgChoices(token.userId) :
         LET out == authenticateToken(header, "none", firstOrg) IN
         resp' = IF out.status # 200 THEN Refused("getDetections", token, Undefined, out)
                 ELSE Handled("getDetections", token, Undefined, out,
                              GetDetectionsReply(type))
  /\ UNCHANGED <<now, jwtExpiresIn, serviceVars, storeVars, ghostVars>>

\* the MonitoringZone rows: written by the seed script, by no route
monitoringZones == {[id |-> "z1", organizationId |-> "o1"]}
ZonesOf(oid) == {z.id : z \in {x \in monitoringZones : x.organizationId = oid}}
SuppliersOf(oid) == {r.id : r \in {x \in suppliers : x.organizationId = oid}}
RiskAssessmentsOf(oid) ==
  {r.id : r \in {x \in riskAssessments : x.supplierId \in SuppliersOf(oid)}}

\* GET /monitoring/zones and GET /dashboard/monitoring-zones: userOrg is the
\* membership findFirst returns
GetZonesReply(userOrg) ==
  IF userOrg = Undefined THEN Reply(200, "ok", {})
  ELSE Reply(200, "ok", ZonesOf(userOrg))
\* GET /dashboard/overview: the rows its counts and lists are taken over
\* (alerts apart); the count of recent detections has no organization filter
GetOverviewReply(userOrg) ==
  IF userOrg = Undefined THEN Reply(200, "ok", {})
  ELSE Reply(200, "ok",
             SuppliersOf(userOrg) \cup ZonesOf(userOrg)
               \cup RiskAssessmentsOf(userOrg) \cup {d.id : d \in detections})
\* GET /dashboard/suppliers
GetSuppliersSummaryReply(userOrg) ==
  IF userOrg = Undefined THEN Reply(200, "ok", {})
  ELSE Reply(200, "ok", SuppliersOf(userOrg))
\* GET /dashboard/risk-distribution: the rows counted by level, type, country
GetRiskDistributionReply(userOrg) ==
  IF userOrg = Undefined THEN Reply(200, "ok", {})
  ELSE Reply(200, "ok", SuppliersOf(userOrg) \cup RiskAssessmentsOf(userOrg))

\* the reply of the list route named route
ListReply(route, userOrg) ==
  CASE route \in {"getZones", "dashZones"} -> GetZonesReply(userOrg)
    [] route = "dashOverview" -> GetOverviewReply(userOrg)
    [] route = "dashSuppliers" -> GetSuppliersSummaryReply(userOrg)
    [] route = "dashRisk" -> GetRiskDistributionReply(userOrg)

\* the responses of a list route behind authenticateToken that takes the
\* organization from the caller's first membership
ListResponses(route) ==
  UNION {LET token == ExtractToken(header) IN
         UNION {LET out == authenticateToken(header, "none", firstOrg) IN
                IF out.status # 200
                THEN {Refused(route, token, Undefined, out)}
                ELSE {Handled(route, token, Undefined, out,
                              ListReply(route, userOrg)) :
                        userOrg \in FirstOrgChoices(out.ctx.id)} :
                  firstOrg \in FirstOrgChoices(token.userId)} :
           header \in Headers}

\* GET /monitoring/zones
GetMonitoringZones ==
  /\ Idle
  /\ resp' \in ListResponses("getZones")
  /\ UNCHANGED <<now, jwtExpiresIn, serviceVars, storeVars, ghostVars>>

\* GET /dashboard/overview
GetDashboardOverview ==
  /\ Idle
  /\ resp' \in ListResponses("dashOverview")
  /\ UNCHANGED <<now, jwtExpiresIn, serviceVars, storeVars, ghostVars>>

\* GET /dashboard/monitoring-zones
GetDashboardZones ==
  /\ Idle
  /\ resp' \in ListResponses("dashZones")
  /\ UNCHANGED <<now, jwtExpiresIn, serviceVars, storeVars, ghostVars>>

\* GET /dashboard/suppliers
GetDashboardSuppliers ==
  /\ Idle
  /\ resp' \in ListResponses("dashSuppliers")
  /\ UNCHANGED <<now, jwtExpiresIn, serviceVars, storeVars, ghostVars>>

\* GET /dashboard/risk-distribution
GetRiskDistribution ==
  /\ Idle
  /\ resp' \in ListResponses("dashRisk")
  /\ UNCHANGED <<now, jwtExpiresIn, serviceVars, storeVars, ghostVars>>

\* the response of a route whose second middleware decided with outcome gate
Gated(route, token, org, out, gate, data) ==
  Scoped(Response(route, token, gate.status, gate.message, gate.ctx,
                  out.steps \o gate.steps, data), org)

\* GET /users: authenticateToken, requireRole(['ADMIN']), then the listing
GetUsers ==
  /\ Idle
  /\ \E header \in Headers :
       LET token == ExtractToken(header) IN
       \E firstOrg \in FirstOrgChoices(token.userId) :
         LET out == authenticateToken(header, "none", firstOrg)
             gate == requireRole(out.ctx, {"ADMIN"}) IN
         resp' = IF out.status # 200 THEN Refused("getUsers", token, Undefined, out)
                 ELSE Gated("getUsers", token, Undefined, out, gate,
                            IF gate.status # 200 THEN {}
                            ELSE {u \in UserIds : users[u].exists})
  /\ UNCHANGED <<now, jwtExpiresIn, serviceVars, storeVars, ghostVars>>

\* a request to a route mounted behind authenticateToken and
\* requireOrganizationAccess; the organization is named in the path, in the
\* body, in both or in neither
OrganizationAccessRequest ==
  /\ Idle
  /\ \E header \in Headers, paramOrg \in OrgParams \cup {Undefined},
        bodyOrg \in {"o1", Undefined}, dbFail \in {"none", "membership"} :
       LET token == ExtractToken(header) IN
       \E firstOrg \in FirstOrgChoices(token.userId) :
         LET out == authenticateToken(header, "none", firstOrg)
             gate == requireOrganizationAccess(out.ctx, paramOrg, bodyOrg, dbFail)
             org == NamedOrganization(paramOrg, bodyOrg) IN
         resp' = IF out.status # 200 THEN Refused("orgAccess", token, org, out)
                 ELSE Gated("orgAccess", token, org, out, gate,
                            IF gate.status # 200 THEN {}
                            ELSE {gate.ctx.organizationId})
  /\ UNCHANGED <<now, jwtExpiresIn, serviceVars, storeVars, ghostVars>>

\* --------------------------------------------- interleaved add-user requests
\* POST /organizations/:organizationId/users awaits between its lookups and
\* its create, so two requests can both pass the lookups before either
\* creates.  AddUserCheck is the handler up to the existingOrgUser lookup,
\* AddUserCreate its organizationUser.create and reply.
\* the compound unique key userId_organizationId of OrganizationUser: a create
\* for a pair that has a row throws
NoUniqueKey(uid, oid) == FALSE
UniqueKeyTaken(uid, oid) == OrgUserRows(uid, oid) # {}

AddUserCheck ==
  /\ Idle
  /\ \E header \in Headers, oid \in OrgParams, email \in UserIds,
        role \in {"MEMBER", "VIEWER", "OWNER"} :
       LET token == ExtractToken(header) IN
       \E firstOrg \in FirstOrgChoices(token.userId) :
         LET out == authenticateToken(header, "none", firstOrg) IN
         IF out.status # 200 THEN
           /\ resp' = Refused("addOrgUser", token, oid, out)
           /\ UNCHANGED pending
         ELSE IF role \notin AddableRoles THEN
           /\ resp' = Handled("addOrgUser", token, oid, out,
                              Reply(400, "Validation failed", {}))
           /\ UNCHANGED pending
         ELSE IF ~MayManage(out.ctx.id, oid) THEN
           /\ resp' = Handled("addOrgUser", token, oid, out,
                              Reply(403, "Insufficient permissions", {}))
           /\ UNCHANGED pending
         ELSE IF ~users[email].exists THEN
           /\ resp' = Handled("addOrgUser", token, oid, out,
                              Reply(404, "User not found", {}))
           /\ UNCHANGED pending
         ELSE IF OrgUserRows(email, oid) # {} THEN
           /\ resp' = Handled("addOrgUser", token, oid, out,
                              Reply(409, "User already in organization", {}))
           /\ UNCHANGED pending
         ELSE
           /\ Cardinality(pending) < MaxPending
           /\ pending' = pending \cup
                {[token |-> token, out |-> out, organizationId |-> oid,
                  userId |-> email, role |-> role]}
           /\ UNCHANGED resp
  /\ UNCHANGED <<now, jwtExpiresIn, alerts, sockets, emitted, duration, arrivals,
                 presented, storeVars, ghostVars>>

AddUserCreate ==
  /\ Idle
  /\ \E p \in pending :
       /\ pending' = pending \ {p}
       /\ IF UniqueKeyTaken(p.userId, p.organizationId) THEN
            /\ resp' = Handled("addOrgUser", p.token, p.organizationId, p.out,
                               Reply(InternalErrorStatus, "Internal server error", {}))
            /\ UNCHANGED orgUsers
          ELSE
            /\ orgUsers' = orgUsers \cup
                 {[userId |-> p.userId, organizationId |-> p.organizationId,
                   role |-> p.role]}
            /\ resp' = Handled("addOrgUser", p.token, p.organizationId, p.out,
                               Reply(201, "User added to organization successfully",
                                     {p.userId}))
  /\ UNCHANGED <<now, jwtExpiresIn, alerts, sockets, emitted, duration, arrivals,
                 presented, users, sessions, organizations, suppliers,
                 riskAssessments, satelliteData, detections, ghostVars>>

\* ---------------------------------------------------------------- alerts
AlertIds == {"a1", "a2", "a3", "a4"}

\* prisma.alert.create: an Alert row is written for a user by the seed script
\* or a background job; no route creates one
CreateAlert ==
  /\ Idle
  /\ \E id \in AlertIds, uid \in UserIds :
       /\ \A a \in alerts : a.id # id
       /\ alerts' = alerts \cup {[id |-> id, userId |-> uid, isRead |-> FALSE]}
  /\ UNCHANGED <<now, jwtExpiresIn, sockets, emitted, duration, arrivals,
                 pending, presented, storeVars, ghostVars, resp>>

\* the rows that match  where: {id: alertId, userId}
MatchedAlerts(alertId, uid) ==
  {a \in alerts : a.id = alertId /\ a.userId = uid}
\* a count of the rows whose isRead the update changed
UpdateCountOfChangedRows(alertId, uid) ==
  Cardinality({a \in MatchedAlerts(alertId, uid) : ~a.isRead})
\* updateMany(...).count: the number of rows the where clause matched
UpdateCount(alertId, uid) == Cardinality(MatchedAlerts(alertId, uid))
\* updateMany({where: {id, userId}, data: {isRead: true}})
MarkRead(alertId, uid) ==
  {IF a \in MatchedAlerts(alertId, uid) THEN [a EXCEPT !.isRead = TRUE] ELSE a :
     a \in alerts}

\* PATCH /alerts/:alertId/read; the response's data is the alert id of the
\* path, its last step tells whether the update changed a row
MarkAlertRead ==
  /\ Idle
  /\ \E header \in Headers, alertId \in AlertIds :
       LET token == ExtractToken(header) IN
       \E firstOrg \in FirstOrgChoices(token.userId) :
         LET out == authenticateToken(header, "none", firstOrg) IN
         IF out.status # 200 THEN
           /\ resp' = Refused("markRead", token, Undefined, out)
           /\ UNCHANGED alerts
         ELSE
           /\ alerts' = MarkRead(alertId, out.ctx.id)
           /\ resp' =
                LET reply == IF UpdateCount(alertId, out.ctx.id) = 0
                             THEN Reply(InternalErrorStatus, "Alert not found", {alertId})
                             ELSE Reply(200, "Alert marked as read", {alertId})
                    r == Handled("markRead", token, Undefined, out, reply)
                IN [r EXCEPT !.steps =
                      @ \o <<IF alerts' = alerts THEN "kept" ELSE "changed">>]
  /\ UNCHANGED <<now, jwtExpiresIn, sockets, emitted, duration, arrivals,
                 pending, presented, storeVars, ghostVars>>

\* ------------------------------------------------------------- WebSocket
\* a room name `kind:id` is the pair <<kind, id>>
Room(kind, id) == <<kind, id>>
SocketIds == 1 .. MaxSockets
\* the ids a client sends with 'join-monitoring-zone' and
\* 'subscribe-risk-updates': those of the seeded zone and supplier
ZoneParams == {"z1"}
SupplierParams == {"s1"}

\* io.use(...): the handshake for the token of handshake.auth.token or of the
\* Authorization header; a throw of jwt.verify or of the store is caught
Handshake(header, dbFail, firstOrg) ==
  LET token == ExtractToken(header) IN
  IF Falsy(token) THEN
    [admitted |-> FALSE, message |-> "Authentication token required",
     userId |-> Undefined, organizationId |-> Undefined]
  ELSE IF JwtVerify(token, now) # "ok" \/ dbFail = "user" THEN
    [admitted |-> FALSE, message |-> "Invalid authentication token",
     userId |-> Undefined, organizationId |-> Undefined]
  ELSE IF UserRejected(token.userId) THEN
    [admitted |-> FALSE, message |-> "User not found or inactive",
     userId |-> Undefined, organizationId |-> Undefined]
  ELSE
    [admitted |-> TRUE, message |-> "next",
     userId |-> token.userId, organizationId |-> firstOrg]

\* io.on('connection', ...): the rooms a socket is joined to when it connects
ConnectRooms(userId, organizationId) ==
  (IF userId # Undefined THEN {Room("user", userId)} ELSE {})
    \cup (IF organizationId # Undefined THEN {Room("org", organizationId)} ELSE {})

\* a client opens a socket: handshake, then the connection handler
Connect ==
  /\ Idle
  /\ \E header \in Headers, dbFail \in {"none", "user"} :
       LET token == ExtractToken(header) IN
       \E firstOrg \in FirstOrgChoices(token.userId) :
         LET hs == Handshake(header, dbFail, firstOrg) IN
         IF ~hs.admitted THEN UNCHANGED sockets
         ELSE
           /\ \E id \in SocketIds : \A k \in sockets : k.id # id
           /\ LET id == CHOOSE i \in SocketIds : \A k \in sockets : k.id # i IN
              sockets' = sockets \cup
                {[id |-> id, token |-> token, userId |-> hs.userId,
                  organizationId |-> hs.organizationId,
                  rooms |-> ConnectRooms(hs.userId, hs.organizationId)]}
  /\ UNCHANGED <<now, jwtExpiresIn, alerts, emitted, duration, arrivals,
                 pending, presented, storeVars, ghostVars, resp>>

\* socket.on('disconnect', ...): the socket leaves all its rooms
Disconnect ==
  /\ Idle
  /\ \E k \in sockets : sockets' = sockets \ {k}
  /\ UNCHANGED <<now, jwtExpiresIn, alerts, emitted, duration, arrivals,
                 pending, presented, storeVars, ghostVars, resp>>

\* socket.join(room) / socket.leave(room)
Join(k, room) == (sockets \ {k}) \cup {[k EXCEPT !.rooms = @ \cup {room}]}
Leave(k, room) == (sockets \ {k}) \cup {[k EXCEPT !.rooms = @ \ {room}]}

\* socket.on('join-monitoring-zone', zoneId)
JoinMonitoringZone ==
  /\ Idle
  /\ \E k \in sockets, zoneId \in ZoneParams :
       sockets' = Join(k, Room("zone", zoneId))
  /\ UNCHANGED <<now, jwtExpiresIn, alerts, emitted, duration, arrivals,
                 pending, presented, storeVars, ghostVars, resp>>

\* socket.on('leave-monitoring-zone', zoneId)
LeaveMonitoringZone ==
  /\ Idle
  /\ \E k \in sockets, zoneId \in ZoneParams :
       sockets' = Leave(k, Room("zone", zoneId))
  /\ UNCHANGED <<now, jwtExpiresIn, alerts, emitted, duration, arrivals,
                 pending, presented, storeVars, ghostVars, resp>>

\* socket.on('subscribe-risk-updates', supplierId)
SubscribeRiskUpdates ==
  /\ Idle
  /\ \E k \in sockets, supplierId \in SupplierParams :
       sockets' = Join(k, Room("supplier", supplierId))
  /\ UNCHANGED <<now, jwtExpiresIn, alerts, emitted, duration, arrivals,
                 pending, presented, storeVars, ghostVars, resp>>

\* io.to(room).emit(event, ...): the event reaches the sockets in the room
Emit(event, room) ==
  [event |-> event, room |-> room,
   receivers |-> {k.id : k \in {x \in sockets : room \in x.rooms}}]

\* sendAlertToUser(io, userId, alert)
SendAlertToUser ==
  /\ Idle
  /\ \E userId \in UserIds : emitted' = Emit("new-alert", Room("user", userId))
  /\ UNCHANGED <<now, jwtExpiresIn, alerts, sockets, duration, arrivals,
                 pending, presented, storeVars, ghostVars, resp>>

\* sendAlertToOrganization(io, organizationId, alert)
SendAlertToOrganization ==
  /\ Idle
  /\ \E organizationId \in OrgIds :
       emitted' = Emit("new-alert", Room("org", organizationId))
  /\ UNCHANGED <<now, jwtExpiresIn, alerts, sockets, duration, arrivals,
                 pending, presented, storeVars, ghostVars, resp>>

\* sendRiskUpdate(io, supplierId, riskData)
SendRiskUpdate ==
  /\ Idle
  /\ \E supplierId \in SupplierParams :
       emitted' = Emit("risk-update", Room("supplier", supplierId))
  /\ UNCHANGED <<now, jwtExpiresIn, alerts, sockets, duration, arrivals,
                 pending, presented, storeVars, ghostVars, resp>>

\* sendDetectionUpdate(io, zoneId, detection)
SendDetectionUpdate ==
  /\ Idle
  /\ \E zoneId \in ZoneParams :
       emitted' = Emit("new-detection", Room("zone", zoneId))
  /\ UNCHANGED <<now, jwtExpiresIn, alerts, sockets, duration, arrivals,
                 pending, presented, storeVars, ghostVars, resp>>

\* --------------------------------------------------------------- metrics
\* the request durations that are measured, in milliseconds
Durations == {1, 2, 3, 4}
\* the buffer keeps the last MaxBuffer measurements (1000 in the code)
Slice(values) ==
  IF Len(values) > MaxBuffer
  THEN SubSeq(values, Len(values) - MaxBuffer + 1, Len(values))
  ELSE values
\* values.sort((a, b) => a - b): sorts the array it is given, in place
SortInPlace(values) == SortSeq(values, LAMBDA a, b : a < b)
\* updatePerformanceMetrics: calculatePercentile is handed
\* metrics.requests.duration itself, so the buffer is left sorted
updatePerformanceMetrics(values) ==
  IF Len(values) > 0 THEN SortInPlace(values) ELSE values

\* res.on('finish', ...) of requestMetrics: push, slice(-1000), update the
\* percentiles; arrivals records every duration in the order it was measured
RequestFinished ==
  /\ Len(arrivals) < MaxRequests
  /\ \E d \in Durations :
       /\ duration' = updatePerformanceMetrics(Slice(Append(duration, d)))
       /\ arrivals' = Append(arrivals, d)
  /\ UNCHANGED <<now, jwtExpiresIn, alerts, sockets, emitted, pending,
                 presented, storeVars, ghostVars, resp>>

Next ==
  \/ Deliver
  \/ Tick
  \/ DeactivateUser
  \/ Register
  \/ Login
  \/ Logout
  \/ Refresh
  \/ GetMe
  \/ GetProfile
  \/ OptionalAuthRequest

\* the session life cycle: issuing, revoking, expiring and validating tokens
Spec == Init /\ [][Next]_vars

NextTenant ==
  \/ Deliver
  \/ Register
  \/ Login
  \/ CreateOrganization
  \/ GetOrganization
  \/ GetOrganizationUsers
  \/ UpdateOrganization
  \/ AddOrganizationUser
  \/ CreateSupplier
  \/ GetSuppliers
  \/ GetRiskAssessments
  \/ GetSatelliteData
  \/ GetDetections
  \/ GetMonitoringZones
  \/ GetDashboardOverview
  \/ GetDashboardZones
  \/ GetDashboardSuppliers
  \/ GetRiskDistribution

\* the tenant-scoped routes, at one instant of the clock and with the
\* default token lifetime
InitTenant == Init /\ jwtExpiresIn = JwtDefaultDays * SecondsPerDay
SpecTenant == InitTenant /\ [][NextTenant]_vars

NextAccess ==
  \/ Deliver
  \/ Register
  \/ Login
  \/ SetMembershipRole
  \/ SetUserRole
  \/ UpdateOrganization
  \/ AddOrganizationUser
  \/ OrganizationAccessRequest
  \/ GetUsers

\* the role checks, at one instant of the clock and with the default token
\* lifetime, while roles are changed in the store
SpecAccess == InitTenant /\ [][NextAccess]_vars

NextRace ==
  \/ Deliver
  \/ Register
  \/ Login
  \/ CreateOrganization
  \/ AddUserCheck
  \/ AddUserCreate

\* the membership writers with add-user requests interleaved
SpecRace == InitTenant /\ [][NextRace]_vars

NextAlerts ==
  \/ Deliver
  \/ Register
  \/ Login
  \/ CreateAlert
  \/ MarkAlertRead
SpecAlerts == InitTenant /\ [][NextAlerts]_vars

NextSocket ==
  \/ Deliver
  \/ Register
  \/ Login
  \/ Logout
  \/ Connect
  \/ Disconnect
  \/ JoinMonitoringZone
  \/ LeaveMonitoringZone
  \/ SubscribeRiskUpdates
  \/ SendAlertToUser
  \/ SendAlertToOrganization
  \/ SendRiskUpdate
  \/ SendDetectionUpdate
SpecSocket == InitTenant /\ [][NextSocket]_vars

NextMetrics == RequestFinished
SpecMetrics == InitTenant /\ [][NextMetrics]_vars

\* the organization of the context, while organizations and memberships are
\* created
NextContext ==
  \/ Deliver
  \/ Register
  \/ Login
  \/ CreateOrganization
  \/ AddOrganizationUser
  \/ OrganizationAccessRequest
SpecContext == InitTenant /\ [][NextContext]_vars

\* ------------------------------------------------------------ properties
\* a response of a route behind authenticateToken
Validated == resp.route = "profile"
Accepted == resp.status = 200
\* a store lookup threw while the request was validated
StoreFailed == resp.status = InternalErrorStatus
\* the Session rows that hold exactly the presented token for its user
RowsOf(tok) == {s \in sessions : s.token = tok /\ s.userId = tok.userId}
Backed(tok) == \E s \in RowsOf(tok) : s.expiresAt > now
ActiveUser(uid) == uid \in UserIds /\ users[uid].exists /\ users[uid].isActive

\* C1: authenticateToken attaches a context and reaches the handler only if
\* the token's signature and embedded expiry verify, a Session row with exactly
\* that token for the token's user has expiresAt > now, and the User row exists
\* and is active; otherwise (a failed store lookup included) no context is
\* attached and the handler does not run.
C1_AcceptOnlyIfAllHold ==
  Validated =>
    /\ (Accepted \/ resp.ctx # NoCtx \/ resp.data # {}) =>
         /\ JwtVerify(resp.token, now) = "ok"
         /\ Backed(resp.token)
         /\ ActiveUser(resp.token.userId)
         /\ resp.ctx.id = resp.token.userId
    /\ ~Accepted => resp.ctx = NoCtx /\ resp.data = {}
C1_Witness ==
  /\ Validated /\ Accepted /\ resp.ctx.id = "u3"
  /\ \E s \in sessions : s.userId = "u3" /\ s.token # resp.token

\* C2: once POST /auth/logout has deleted a token's Session row, every later
\* request presenting that token to a protected route is rejected with 401
\* (the store answering), though its signature verifies and the user is active.
C2_LoggedOutRejected ==
  (Validated /\ resp.token \in loggedOut /\ ~StoreFailed) => resp.status = 401

\* C7: a request whose Session rows all have expiresAt <= now is rejected with
\* 401 (the store answering), the expired row being still in the store; the
\* comparison is strict, and a session created at T0 is rejected at
\* T0 + 7 days + 1 second.
C7_ExpiredRejected ==
  (/\ Validated /\ ~StoreFailed
   /\ RowsOf(resp.token) # {}
   /\ \A s \in RowsOf(resp.token) : s.expiresAt <= now)
    => resp.status = 401 /\ resp.ctx = NoCtx
C7_Witness ==
  /\ Validated /\ resp.message = "Session expired"
  /\ \E s \in RowsOf(resp.token) :
       /\ s.expiresAt = resp.token.iat * UnitsPerSecond + SessionTtl
       /\ now = s.expiresAt + UnitsPerSecond

\* C8: once a user's isActive flag is false, every request bearing one of the
\* user's tokens is rejected with 401 (the store answering), also while the
\* token's Session row is present and unexpired.
C8_InactiveRejected ==
  (/\ Validated /\ ~StoreFailed
   /\ resp.token.userId \in UserIds
   /\ ~users[resp.token.userId].isActive)
    => resp.status = 401 /\ resp.ctx = NoCtx
C8_Witness ==
  /\ Validated /\ resp.status = 401
  /\ resp.token.userId \in UserIds
  /\ users[resp.token.userId].exists
  /\ ~users[resp.token.userId].isActive
  /\ JwtVerify(resp.token, now) = "ok"
  /\ Backed(resp.token)

\* C9: GET /auth/me returns a profile only for a token the session validator
\* would accept: a token whose Session row was deleted by logout or has
\* expired is rejected.
C9_MeNeedsLiveSession ==
  (resp.route = "me" /\ Accepted) => Backed(resp.token)

IsPrefix(s, t) == Len(s) <= Len(t) /\ \A i \in 1..Len(s) : s[i] = t[i]
ClaimedOrder == <<"extract", "verify", "session", "user", "selectOrg">>
CodeOrder == <<"extract", "verify", "user", "session", "selectOrg">>

SupplierOrg(sid) == {x.organizationId : x \in {r \in suppliers : r.id = sid}}
RiskOrg(id) ==
  UNION {SupplierOrg(x.supplierId) : x \in {r \in riskAssessments : r.id = id}}
SatelliteOrg(id) ==
  UNION {SupplierOrg(x.supplierId) : x \in {r \in satelliteData : r.id = id}}
DetectionOrg(id) == {x.organizationId : x \in {r \in detections : r.id = id}}
\* the caller of the response in flight and its memberships
Caller == resp.ctx.id
CallerOrgs == {m.organizationId : m \in {r \in orgUsers : r.userId = Caller}}
CallerRoles(oid) ==
  {m.role : m \in {r \in orgUsers : r.userId = Caller /\ r.organizationId = oid}}

\* C3: GET /suppliers returns only suppliers of organizations the caller has
\* a Membership in, whatever organizationId the query carries.
C3_SuppliersOfOwnOrgsOnly ==
  (resp.route = "getSuppliers" /\ Accepted) =>
    \A sid \in resp.data : SupplierOrg(sid) \subseteq CallerOrgs

\* C4: GET /risk/assessments, GET /satellite and GET /monitoring/detections
\* return only rows of organizations the caller has a Membership in.
C4_RowsOfOwnOrgsOnly ==
  /\ (resp.route = "getRisk" /\ Accepted) =>
       \A id \in resp.data : RiskOrg(id) \subseteq CallerOrgs
  /\ (resp.route = "getSatellite" /\ Accepted) =>
       \A id \in resp.data : SatelliteOrg(id) \subseteq CallerOrgs
  /\ (resp.route = "getDetections" /\ Accepted) =>
       \A id \in resp.data : DetectionOrg(id) \subseteq CallerOrgs

\* C5: for a caller whose Membership role in O is VIEWER, POST /suppliers with
\* organizationId = O, PUT /organizations/O and POST /organizations/O/users
\* (with a body that passes validation) are rejected with 403, and
\* GET /organizations/O and GET /organizations/O/users succeed.
C5_ViewerReadOnly ==
  (Caller # Undefined /\ CallerRoles(resp.org) = {"VIEWER"}) =>
    /\ (/\ resp.route \in {"createSupplier", "updateOrg", "addOrgUser"}
        /\ resp.message # "Validation failed")
         => resp.status = 403
    /\ resp.route \in {"getOrg", "getOrgUsers"} => resp.status = 200

\* C6: for a caller with no Membership in O, GET /organizations/O and
\* GET /organizations/O/users answer 404, never 403, and the reply equals the
\* reply the same caller gets for an organization id that does not exist.
C6_NonMemberSeesNotFound ==
  (/\ resp.route \in {"getOrg", "getOrgUsers"}
   /\ Caller # Undefined
   /\ resp.org \notin CallerOrgs) =>
    /\ resp.status = 404
    /\ Reply(resp.status, resp.message, resp.data) =
         (IF resp.route = "getOrg" THEN GetOrganizationReply(Caller, NoSuchOrg)
          ELSE GetOrganizationUsersReply(Caller, NoSuchOrg))
C6_Witness ==
  /\ resp.route = "getOrg"
  /\ Caller = "u3"
  /\ OrgExists(resp.org)
  /\ resp.org \notin CallerOrgs
  /\ resp.status = 404

\* ------------------------------------------------ rejections and variants
\* the causes of a rejection that lie in the credential
NoCredential(tok) == Falsy(tok)
BadCredential(tok) == ~Falsy(tok) /\ JwtVerify(tok, now) # "ok"
CredentialMessages ==
  {"Access token required", "Invalid token", "User not found or inactive",
   "Session expired"}

\* C11: every rejection by authenticateToken that is caused by the credential
\* (no Authorization header, a header with no token part, a malformed or
\* wrongly signed token, a token past its embedded expiry, a missing or
\* expired Session row, a missing or inactive user) has status 401, never 400
\* or 403; the store answering, each of these causes does lead to a rejection.
C11_CredentialRejectionIs401 ==
  (Validated /\ ~StoreFailed) =>
    /\ ~Accepted => resp.status = 401 /\ resp.message \in CredentialMessages
    /\ (\/ NoCredential(resp.token)
        \/ BadCredential(resp.token)
        \/ ~ActiveUser(resp.token.userId)
        \/ ~Backed(resp.token)) => resp.status = 401
C11_Witness ==
  /\ Validated /\ resp.status = 401
  /\ JwtVerify(resp.token, now) = "TokenExpiredError"

\* the user lookup of optionalAuth threw and was swallowed by its catch
LookupSwallowed == resp.steps = <<"extract", "verify", "user", "catch">>

\* C12: optionalAuth never rejects, and it attaches a context exactly when
\* authenticateToken would accept the same token against the same store (the
\* signature and embedded expiry verify, a Session row with that token is
\* live, the user is active); a token whose Session row is deleted or expired
\* gets no context.
C12_OptionalAuthSameChain ==
  resp.route = "optional" =>
    /\ resp.status = 200
    /\ ~LookupSwallowed =>
         (resp.ctx # NoCtx <=>
            /\ JwtVerify(resp.token, now) = "ok"
            /\ ActiveUser(resp.token.userId)
            /\ Backed(resp.token))

\* ------------------------------------------------------ role properties
ManagerRoles == {"OWNER", "ADMIN"}
\* the Membership roles user uid holds in organization oid
RolesIn(uid, oid) ==
  {m.role : m \in {r \in orgUsers : r.userId = uid /\ r.organizationId = oid}}
ManageRoutes == {"updateOrg", "addOrgUser"}

\* C13: PUT /organizations/O and POST /organizations/O/users change the store
\* only when the caller's Membership role in O is OWNER or ADMIN; a caller
\* with no Membership in O or with role MEMBER or VIEWER, sending a body that
\* passes validation, gets 403, and no Organization or Membership row changes
\* (whatever the body).
C13_OnlyManagersChange ==
  [][resp'.route \in ManageRoutes =>
       LET uid == resp'.ctx.id
           oid == resp'.org IN
       (uid = Undefined \/ RolesIn(uid, oid) \cap ManagerRoles = {}) =>
         /\ UNCHANGED <<organizations, orgUsers>>
         /\ (uid # Undefined /\ resp'.message # "Validation failed")
              => resp'.status = 403]_vars
C13_Witness ==
  /\ resp.route = "addOrgUser" /\ resp.status = 403
  /\ CallerRoles(resp.org) = {"MEMBER"}

\* C14: for an authenticated request that names an organization (path or
\* body), requireOrganizationAccess lets the request proceed if and only if a
\* Membership row exists for (caller, organization), the store answering, and
\* then sets the context's organizationId to it; without the row it fails
\* with 403 and the context keeps the organizationId authenticateToken chose.
C14_AccessIffMembership ==
  (/\ resp.route = "orgAccess" /\ Caller # Undefined
   /\ resp.org # Undefined /\ ~StoreFailed) =>
    /\ resp.status = 200 <=> resp.org \in CallerOrgs
    /\ resp.status = 200 => resp.ctx.organizationId = resp.org
    /\ resp.status # 200 =>
         /\ resp.status = 403
         /\ resp.ctx.organizationId # resp.org
         /\ resp.ctx.organizationId \in FirstOrgChoices(Caller)
C14_Witness ==
  /\ resp.route = "orgAccess" /\ resp.status = 403
  /\ Caller = "admin" /\ resp.ctx.organizationId = "o1"
  /\ resp.org = NoSuchOrg

\* C15: PUT /organizations/O and POST /organizations/O/users are decided by
\* the caller's Membership role as stored at the time of the request: a token
\* issued before the role was changed is refused exactly when the role now
\* stored is not OWNER or ADMIN.
C15_RoleReadPerRequest ==
  (/\ resp.route \in ManageRoutes /\ Caller # Undefined
   /\ resp.message # "Validation failed") =>
    (resp.status = 403 <=> RolesIn(Caller, resp.org) \cap ManagerRoles = {})
C15_Witness ==
  /\ resp.route = "updateOrg" /\ resp.status = 403
  /\ resp.token \in outdated
  /\ Caller = "admin" /\ resp.org = "o1"
  /\ RolesIn(Caller, resp.org) = {"VIEWER"}

\* C17: requireRole(allowedRoles) after authenticateToken lets the request
\* proceed if and only if the context's global role is in allowedRoles,
\* failing with 403 otherwise and with 401 when no context is attached;
\* GET /users answers 200 only to a caller whose User row has role ADMIN at
\* the time of the request.
C17_AdminOnly ==
  /\ requireRole(NoCtx, {"ADMIN"}).status = 401
  /\ (resp.route = "getUsers" /\ Caller # Undefined) =>
       /\ resp.status = 200 <=> users[Caller].role = "ADMIN"
       /\ resp.status # 200 => resp.status = 403 /\ resp.data = {}
  /\ (resp.route = "getUsers" /\ resp.status = 200) => Caller # Undefined
C17_Witness ==
  /\ resp.route = "getUsers" /\ resp.status = 403
  /\ Caller = "admin" /\ resp.token \in outdated

ListRoutes ==
  {"getSuppliers", "getZones", "dashOverview", "dashZones", "dashSuppliers",
   "dashRisk"}
OrgMutations == {"createSupplier", "updateOrg", "addOrgUser"}

\* C16: for an authenticated caller with no Membership at all, GET /suppliers,
\* GET /monitoring/zones and the four GET /dashboard lists answer 200 with an
\* empty (all-zero) result, and POST /suppliers, PUT /organizations/:id and
\* POST /organizations/:id/users (with a body that passes validation) fail
\* with 403.
C16_NoMembership ==
  (Caller # Undefined /\ CallerOrgs = {}) =>
    /\ resp.route \in ListRoutes => resp.status = 200 /\ resp.data = {}
    /\ (resp.route \in OrgMutations /\ resp.message # "Validation failed")
         => resp.status = 403

\* ---------------------------------------------------- issuer properties
IssuerRoutes == {"register", "login", "refresh"}
\* a response that hands a token to the client
HandsToken == resp.route \in IssuerRoutes /\ resp.status \in {200, 201}

\* C18: every token returned by POST /auth/register, POST /auth/login or
\* POST /auth/refresh is backed, when the response is sent, by a Session row
\* holding exactly that token for that user with expiresAt = issuance time +
\* 7 days, so that the next protected request accepts it.
C18_IssuedTokenBacked ==
  HandsToken =>
    /\ \E s \in RowsOf(resp.token) : s.expiresAt = now + SessionTtl
    /\ authenticateToken(Bearer(resp.token), "none", Undefined).status = 200

\* C19: POST /auth/register with an email that is already registered (and a
\* body that passes validation) fails with 409, creates no User or Session
\* row and leaves the User row and its sessions unchanged: a registration
\* answers 201 only for an email that had no User row, and every other
\* answer (400 for an invalid body, 409) changes nothing.
C19_DuplicateRegisterConflict ==
  [][resp'.route = "register" =>
       /\ resp'.status \in {201, 400, 409}
       /\ resp'.status = 400 <=> resp'.message = "Validation failed"
       /\ resp'.status = 201 =>
            \E e \in Clients :
              /\ resp'.data = {e}
              /\ ~users[e].exists
              /\ \A u \in UserIds \ {e} : users'[u] = users[u]
              /\ sessions \subseteq sessions'
       /\ resp'.status # 201 => UNCHANGED <<users, sessions>>]_vars
C19_Witness ==
  /\ resp.route = "register" /\ resp.status = 409
  /\ users["u3"].exists /\ ~users["u3"].isActive
  /\ \E s \in sessions : s.userId = "u3"

\* C20: POST /auth/login answers an unknown email, an inactive user and a
\* wrong password with the same reply, status 401 and one message, so the
\* reply does not tell which cause applied.
C20_LoginFailuresAlike ==
  (resp.route = "login" /\ resp.status # 200
   /\ resp.message # "Validation failed") =>
    /\ resp.status = 401
    /\ resp.token = NoToken
    /\ \A c \in LoginCauses :
         Reply(resp.status, resp.message, resp.data) = LoginRejection(c)
C20_Witness ==
  /\ resp.route = "login" /\ resp.status = 401
  /\ resp.steps = <<"validate", "user">>
  /\ \A u \in Clients : users[u].exists /\ users[u].isActive = (u = "admin")

\* ------------------------------------------------ membership properties
UniqueMembership ==
  \A m1, m2 \in orgUsers :
    (m1.userId = m2.userId /\ m1.organizationId = m2.organizationId) => m1 = m2

OwnedAlerts(alertIds, uid) ==
  {a \in alerts : a.id \in alertIds /\ a.userId = uid}
C22_MarkReadIdempotent ==
  [][(resp'.route = "markRead" /\ resp' # resp /\ resp'.ctx.id # Undefined
      /\ OwnedAlerts(resp'.data, resp'.ctx.id) # {})
     => /\ resp'.status = 200
        /\ \A a \in alerts :
             IF a \in OwnedAlerts(resp'.data, resp'.ctx.id)
             THEN [a EXCEPT !.isRead = TRUE] \in alerts'
             ELSE a \in alerts'
        /\ Cardinality(alerts') = Cardinality(alerts)
        /\ (\A a \in OwnedAlerts(resp'.data, resp'.ctx.id) : a.isRead)
             => alerts' = alerts]_vars
\* the owner's second call was answered 200 and changed nothing
C22_Witness ==
  /\ resp.route = "markRead"
  /\ resp.status = 200
  /\ resp.steps[Len(resp.steps)] = "kept"
  /\ \E a \in alerts : a.id \in resp.data /\ a.userId = resp.ctx.id /\ a.isRead

\* ------------------------------------------------------------------- C23
\* C23: the WebSocket handshake admits a connection only for a token that has
\* a matching Session row that has not expired: every socket that is opened
\* presents a token whose Session row exists with expiresAt > now.
NewSockets == {k \in sockets' : \A j \in sockets : j.id # k.id}
C23_HandshakeNeedsSession ==
  [][\A k \in NewSockets : LiveSessions(k.userId, k.token, now) # {}]_vars

\* ------------------------------------------------------------------- C30
\* C30: a socket is in the room of a supplier or of a monitoring zone, and is
\* reached by 'risk-update' and 'new-detection', only if the supplier or zone
\* belongs to an organization its user is a member of; 'new-alert' reaches
\* only the sockets authenticated as that user or joined for that
\* organization when they connected.
ZoneOrg(zid) == {z.organizationId : z \in {x \in monitoringZones : x.id = zid}}
RoomOrg(room) ==
  IF room[1] = "supplier" THEN SupplierOrg(room[2])
  ELSE IF room[1] = "zone" THEN ZoneOrg(room[2])
  ELSE {}
TenantRooms == {"supplier", "zone"}
OwnTenantRoom(k, room) ==
  RoomOrg(room) # {} /\ RoomOrg(room) \subseteq OrgsOf(k.userId)
C30_EventsStayInTenant ==
  /\ \A k \in sockets : \A room \in k.rooms :
       room[1] \in TenantRooms => OwnTenantRoom(k, room)
  /\ emitted.event \in {"risk-update", "new-detection"} =>
       \A k \in sockets : k.id \in emitted.receivers => OwnTenantRoom(k, emitted.room)
  /\ emitted.event = "new-alert" =>
       \A k \in sockets : k.id \in emitted.receivers =>
         \/ emitted.room = Room("user", k.userId)
         \/ emitted.room = Room("org", k.organizationId)

\* ------------------------------------------------------------------- C24
\* C24: after every finished request the duration buffer holds at most the
\* buffer's limit of entries, and they are the durations of the most recent
\* requests in arrival order.
C24_LastDurationsInOrder ==
  /\ Len(duration) <= MaxBuffer
  /\ duration = Slice(arrivals)

\* ------------------------------------------------------------------- C25
\* C25: whenever the context of a request carries an organizationId, its user
\* had a Membership in that organization when the request arrived:
\* authenticateToken sets it to the
\* organization of one of the user's memberships and leaves it undefined when
\* the user has none, and requireOrganizationAccess replaces it only by the
\* organization whose Membership lookup succeeded.
C25_ContextOrgIsMembership ==
  [][(resp' # resp /\ resp'.ctx.id # Undefined) =>
       LET orgs == OrgsOf(resp'.ctx.id) IN
       /\ resp'.ctx.organizationId # Undefined => resp'.ctx.organizationId \in orgs
       /\ orgs # {} => resp'.ctx.organizationId # Undefined
       /\ (resp'.route = "orgAccess" /\ resp'.status = 200) =>
            resp'.ctx.organizationId = resp'.org]_vars
\* a member of two organizations named the one authenticateToken did not
\* select, and the context was overwritten with it
C25_Witness ==
  /\ resp.route = "orgAccess" /\ Accepted
  /\ CallerOrgs = {"o1", "o2"}
  /\ resp.ctx.organizationId = "o2"

\* ------------------------------------------------------------------- C26
\* C26: POST /auth/logout with token T always answers success, deletes only
\* Session rows whose token is T and leaves every other Session, User and
\* Membership row unchanged; every login wrote one Session row, and the row
\* of a different login of the same user is still there after the logout, so
\* that login's token stays accepted however close in time the logins were.
C26_LogoutEndsOneLogin ==
  [][(resp'.route = "logout" /\ resp' # resp) =>
       /\ resp'.status = 200
       /\ sessions' \subseteq sessions
       /\ \A s \in sessions \ sessions' : s.token = resp'.token
       /\ UNCHANGED <<users, orgUsers>>
       /\ Cardinality(sessions \ sessions') <= 1]_vars

\* ------------------------------------------------------------------- C27
\* C27: POST /auth/refresh never enlarges the set of tokens authenticateToken
\* accepts: after T was refreshed into T', T is no longer accepted, T' is
\* accepted only if a Session row held T when the refresh ran, and when T's
\* Session row had been deleted by logout the token returned is not accepted.
AcceptedTokens ==
  {t \in issued : authenticateToken(Bearer(t), "none", Undefined).status = 200}
Refreshed == resp'.route = "refresh" /\ resp' # resp /\ resp'.status = 200
C27_RefreshNeverEnlarges ==
  [][Refreshed =>
       /\ Cardinality(AcceptedTokens') <= Cardinality(AcceptedTokens)
       /\ presented' # resp'.token => presented' \notin AcceptedTokens'
       /\ resp'.token \in AcceptedTokens' => RowsOf(presented') # {}
       /\ (presented' \in loggedOut /\ RowsOf(presented') = {}) =>
            resp'.token \notin AcceptedTokens']_vars

\* ------------------------------------------------------------------- C28
\* C28: once a Session row's expiresAt has passed, no operation makes a token
\* accepted through that row again: an expired row is left as it is or
\* deleted, never rewritten, and POST /auth/refresh presented with the token
\* of an expired session returns no token that authenticateToken accepts,
\* whatever the configured token lifetime.
ExpiredRows == {s \in sessions : s.expiresAt <= now}
C28_ExpiredStaysExpired ==
  [][/\ \A s \in ExpiredRows : s \in sessions' \/ sessions' \subseteq sessions
     /\ (Refreshed /\ RowsOf(presented') # {} /\ RowsOf(presented') \subseteq ExpiredRows)
          => resp'.token \notin AcceptedTokens']_vars

\* ------------------------------------------------------------------- C29
\* C29: through the HTTP API an OWNER Membership is created only by
\* POST /organizations, for the creator and the organization it creates;
\* POST /organizations/:id/users creates only MEMBER or VIEWER memberships,
\* for users that had none in that organization; no request changes or removes
\* a Membership; and every organization whose creation was answered 201 has
\* its creator as OWNER.
NewMemberships == orgUsers' \ orgUsers
C29_OwnerOnlyByCreation ==
  [][/\ orgUsers \subseteq orgUsers'
     /\ \A m \in NewMemberships :
          /\ OrgUserRows(m.userId, m.organizationId) = {}
          /\ \/ /\ m.role = "OWNER"
                /\ resp'.route = "createOrg"
                /\ m.userId = resp'.ctx.id
                /\ m.organizationId = resp'.org
                /\ ~OrgExists(m.organizationId)
             \/ /\ m.role \in {"MEMBER", "VIEWER"}
                /\ resp'.route = "addOrgUser"
                /\ m.organizationId = resp'.org
     /\ (resp'.route = "createOrg" /\ resp' # resp /\ resp'.status = 201) =>
          [userId |-> resp'.ctx.id, organizationId |-> resp'.org,
           role |-> "OWNER"] \in NewMemberships]_vars
\* the creator of o2 is its OWNER and has added a VIEWER to it
C29_Witness ==
  /\ resp.route = "addOrgUser" /\ resp.status = 201 /\ resp.org = "o2"
  /\ CallerRoles("o2") = {"OWNER"}
  /\ \E m \in orgUsers :
       m.organizationId = "o2" /\ m.userId \in resp.data /\ m.role = "VIEWER"

====
